---- MODULE Spec2Model ----
(***************************************************************************)
(* The readiness manager of agoo (src/ext/agoo/ready.c): the list of       *)
(* Links, registration from any thread, one tick of the I/O thread         *)
(* (snapshot, interest refresh, wait, dispatch, periodic sweep) and the    *)
(* manager's destruction, for both the epoll and the poll build.           *)
(*                                                                         *)
(* A Link is identified by its address 1..MaxLinks; its fd is its address  *)
(* (fds are distinct).  Freed memory keeps its last contents: a read of a  *)
(* freed Link either crashes the process or sees those stale contents.     *)
(* Time is counted in units of 0.25 s.                                     *)
(***************************************************************************)
EXTENDS Integers, Sequences, FiniteSets, TLC

\* ---------------------------------------------------------------- bounds
MaxLinks == 2      \* Links ever allocated
MaxTime  == 2      \* the clock stops advancing here
MaxStep  == 2      \* the most time that passes between two dtime() calls
NThreads == 1      \* threads that call agoo_ready_add
NHandlers == 2     \* the vtables of Handlers that are used
MaxFails == 1      \* malloc and epoll_ctl calls that fail for lack of memory
PollThreads == 2   \* the threads of the specification of the poll slot array
\* the bounds of the specification of the sweep's timing
TimeLinks == 1
TimeMax   == 6

\* ------------------------------------------------------ program constants
CHECK_FREQ == 2              \* 0.5 s
INITIAL_POLL_SIZE == 1024

NULL == 0
Uninit == {"uninit"}     \* a link->events that was never written
Absent == {"absent"}     \* an fd that is not in the epoll set
PpUninit == 0 - 1        \* a link->pp that was never written
PpNULL == 0 - 2          \* a link->pp that is NULL
Link == 1..MaxLinks
Thread == 1..(IF NThreads > PollThreads THEN NThreads ELSE PollThreads)
Bits == {"IN", "OUT", "ERR"}
IoAnswers == {"IN", "OUT", "BOTH", "NONE"}

\* The handler vtables a Link can be registered with: which callbacks are
\* not NULL (io is always called, without a NULL test).
Handlers ==
  << [read |-> TRUE,  write |-> TRUE,  error |-> TRUE,  check |-> TRUE,  destroy |-> TRUE],
     [read |-> TRUE,  write |-> FALSE, error |-> FALSE, check |-> FALSE, destroy |-> TRUE],
     [read |-> FALSE, write |-> TRUE,  error |-> TRUE,  check |-> TRUE,  destroy |-> FALSE] >>
HandlerId == 1..NHandlers

ZeroSlot == [fd |-> 0, events |-> {}, revents |-> {}]
NoEvent == [kind |-> "none", link |-> NULL, bits |-> {}, log |-> <<>>, removed |-> FALSE, live |-> FALSE]

VARIABLES
  cfg,         \* the build (backend: "epoll" or "poll", HAVE_SYS_EPOLL_H), the
               \* bounds of the run (links, time, threads) and the state it starts
               \* from (base, cap); never changes
  lst,         \* Link -> "none" (never allocated), "live", "freed"
  next, prev,  \* Link -> Link or NULL: link->next, link->prev
  hnd,         \* Link -> HandlerId: link->handler
  events,      \* Link -> Uninit or a set of bits: link->events (epoll)
  pp,          \* Link -> PpUninit or a slot index: link->pp (poll)
  links,       \* ready->links
  lcnt,        \* ready->lcnt
  next_check,  \* ready->next_check
  epset,       \* Link -> Absent, or the mask installed for its fd in the epoll set
  pa,          \* slot index -> slot: ready->pa
  pcap,        \* ready->pend - ready->pa
  fails,       \* the malloc and epoll_ctl calls that failed for lack of memory
  clock,       \* the time source
  pc,          \* the I/O thread: idle, refresh, wait, dispatch, sweep, check, done, crashed, destroyed
  tlinks,      \* agoo_ready_go's local links (the snapshot)
  cur,         \* agoo_ready_go's local link (the cursor of a list walk)
  tnow,        \* agoo_ready_go's local now
  pend,        \* the Links of the events epoll_wait returned, not yet dispatched
  nfds,        \* the number of slots the refresh filled (pp - ready->pa)
  lreg,        \* <<>>, or <<v>>: the value ready->lcnt-- loaded and has not stored yet
  tret,        \* what the tick returns
  tpc, tlink,  \* Thread -> "idle" / "linked", and the Link it is registering
  rret,        \* what the last agoo_ready_add returned ("none" before any)
  \* ---- observations
  ioAns,       \* Link -> io's answer in this tick's refresh, "-" when not asked
  ioCnt,       \* Link -> how often io was asked in this tick
  ioHist,      \* Link -> whether io has ever answered something other than NONE
  lastEv,      \* the callbacks of the last dispatched event or sweep visit
  tfalse,      \* live Links a callback returned false for in this tick
  snapN,       \* the number of Links allocated when the tick took its snapshot
  destroyed,   \* Link -> how often handler.destroy was called (2: more than once)
  uaf,         \* "no", or the first place that read or wrote memory it must not:
               \* a freed Link, the freed slot array ("grow"), past the end of
               \* the slot array ("overflow")
  regOK,       \* register calls that returned OK
  unregs,      \* ready_remove calls
  lastSweep,   \* now of the last sweep, -1 before any
  werr         \* errno of this tick's failed wait, "none" when it did not fail

listVars == <<lst, next, prev, hnd, links, lcnt>>
backVars == <<events, pp, epset, pa, pcap, fails>>
tickVars == <<pc, tlinks, cur, tnow, pend, nfds, lreg, tret>>
regVars == <<tpc, tlink, rret, regOK>>
obsVars == <<ioAns, ioCnt, ioHist, lastEv, tfalse, snapN, destroyed, uaf, unregs, lastSweep,
            werr>>
vars == <<cfg, listVars, backVars, next_check, clock, tickVars, regVars, obsVars>>

\* ---------------------------------------------------------------- helpers
backend == cfg.backend
Min(a, b) == IF a < b THEN a ELSE b

Freed == {l \in Link : lst[l] = "freed"}
Allocated == {l \in Link : lst[l] # "none"}
Running == pc \notin {"crashed", "destroyed"}

\* dtime(): a monotonic time source; the clock may have advanced since the
\* last call.
Dtimes == clock..Min(clock + MaxStep, cfg.time)

\* The Links reached from l by link->next, in order.
RECURSIVE ChainFrom(_, _, _)
ChainFrom(nx, l, fuel) ==
  IF l = NULL \/ fuel = 0 THEN <<>>
  ELSE <<l>> \o ChainFrom(nx, nx[l], fuel - 1)

Chain(l) == ChainFrom(next, l, MaxLinks + 1)
Range(s) == {s[i] : i \in 1..Len(s)}
ListSet == Range(Chain(links))

\* A read or write of freed memory is undefined: the process may crash, or
\* go on with the stale contents.
Outcomes(S) == IF S \cap Freed # {} THEN {"stale", "crash"} ELSE {"ok"}
First(sites) == IF uaf # "no" \/ sites = <<>> THEN uaf ELSE sites[1]
Touch(site, S) == IF S \cap Freed # {} THEN First(<<site>>) ELSE uaf
StaleTag2(S, site) == IF S \cap Freed # {} THEN <<site>> ELSE <<>>

Crash(site) ==
  /\ pc' = "crashed"
  /\ uaf' = First(<<site>>)
  /\ UNCHANGED <<cfg, listVars, backVars, next_check, clock, tlinks, cur, tnow, pend,
                 nfds, lreg, tret, regVars, ioAns, ioCnt, ioHist, lastEv, tfalse, snapN,
                 destroyed, unregs, lastSweep, werr>>

\* ------------------------------------------------------------------- Init
\* agoo_ready_create: an empty list, next_check = dtime() + CHECK_FREQ.
\* cfg.base Links may have been registered since, one call after the other,
\* which left the capacity cfg.cap; they are the tail of the list, they are
\* idle (io answers something other than NONE, the backend reports nothing
\* for them, check returns true) and they are counted, not listed.
InitState ==
  /\ lst = [l \in Link |-> "none"]
  /\ next = [l \in Link |-> NULL]
  /\ prev = [l \in Link |-> NULL]
  /\ hnd = [l \in Link |-> 1]
  /\ events = [l \in Link |-> Uninit]
  /\ pp = [l \in Link |-> PpUninit]
  /\ links = NULL
  /\ lcnt = cfg.base
  /\ clock = 0
  /\ next_check = 0 + CHECK_FREQ
  /\ epset = [l \in Link |-> Absent]
  /\ pa = [i \in 0..(MaxLinks - 1) |-> ZeroSlot]
  /\ pcap = cfg.cap
  /\ fails = 0
  /\ pc = "idle"
  /\ tlinks = NULL
  /\ cur = NULL
  /\ tnow = 0
  /\ pend = {}
  /\ nfds = 0
  /\ lreg = <<>>
  /\ tret = "none"
  /\ tpc = [t \in Thread |-> "idle"]
  /\ tlink = [t \in Thread |-> NULL]
  /\ rret = "none"
  /\ ioAns = [l \in Link |-> "-"]
  /\ ioCnt = [l \in Link |-> 0]
  /\ ioHist = [l \in Link |-> FALSE]
  /\ lastEv = NoEvent
  /\ tfalse = {}
  /\ snapN = 0
  /\ destroyed = [l \in Link |-> 0]
  /\ uaf = "no"
  /\ regOK = cfg.base
  /\ unregs = 0
  /\ lastSweep = -1
  /\ werr = "none"

\* ------------------------------------------------------------ registration
\* link_create fails: agoo_ready_add returns the memory error at once.
RegNoMem(t) ==
  /\ Running
  /\ t <= cfg.threads
  /\ tpc[t] = "idle"
  /\ fails < MaxFails
  /\ fails' = fails + 1
  /\ rret' = "MEMORY"
  /\ UNCHANGED <<cfg, listVars, events, pp, epset, pa, pcap, next_check, clock, tickVars,
                 tpc, tlink, regOK, obsVars>>

\* link_create, then the insertion at the head under the mutex.
RegLink(t) ==
  /\ Running
  /\ t <= cfg.threads
  /\ tpc[t] = "idle"
  /\ \E l \in Link, h \in HandlerId :
       /\ l <= cfg.links
       /\ lst[l] = "none"
       /\ \A k \in Link : k < l => lst[k] # "none"
       /\ lst' = [lst EXCEPT ![l] = "live"]
       /\ hnd' = [hnd EXCEPT ![l] = h]
       /\ next' = [next EXCEPT ![l] = links]
       /\ prev' = IF links # NULL
                  THEN [prev EXCEPT ![l] = NULL, ![links] = l]
                  ELSE [prev EXCEPT ![l] = NULL]
       /\ uaf' = Touch("add", {links} \ {NULL})
       /\ links' = l
       /\ lcnt' = lcnt + 1
       /\ tpc' = [tpc EXCEPT ![t] = "linked"]
       /\ tlink' = [tlink EXCEPT ![t] = l]
  /\ UNCHANGED <<cfg, backVars, next_check, clock, tickVars, rret, regOK,
                 ioAns, ioCnt, ioHist, lastEv, tfalse, snapN, destroyed, unregs, lastSweep, werr>>

\* A variant that grows the array only when there are more Links than slots.
PollGrowWhenExceeded(cap, cnt) == cap < cnt

\* The poll slot array is doubled and zeroed when it has no more slots than
\* there are Links.
PollGrow(cap, cnt) == cap <= cnt

\* EPOLL_CTL_ADD of a new fd succeeds, or fails for lack of memory.
AddOutcomes == IF fails < MaxFails THEN {TRUE, FALSE} ELSE {TRUE}

\* A variant that ignores the result of epoll_ctl.
AddRetIgnored(ok) == "OK"

\* What agoo_ready_add returns after EPOLL_CTL_ADD.
AddRet(ok) == IF ok THEN "OK" ELSE "BACKEND"

\* The tick has refreshed the interest and has not finished its dispatch: it
\* is using the backend handle.
InUse == pc \in {"wait", "dispatch"}

\* poll: what the realloc and memset of a growth do to the slot array.  When
\* the tick is between its refresh and the end of its dispatch it is using
\* the array: it is zeroed under it, or it has moved and the tick goes on in
\* the freed block, which it reads with its old contents or crashes on.
GrowOutcomes ==
  IF ~PollGrow(pcap, lcnt) THEN {"none"}
  ELSE IF InUse THEN {"zeroed", "moved", "crash"}
  ELSE {"zeroed"}

\* The rest of agoo_ready_add, outside the mutex.  epoll: link->events =
\* EPOLLIN and EPOLL_CTL_ADD, which may fail.  poll: the array's growth.
RegBackend(t) ==
  /\ Running
  /\ tpc[t] = "linked"
  /\ LET l == tlink[t] IN
     IF backend = "epoll"
     THEN \E ok \in AddOutcomes :
            /\ fails' = IF ok THEN fails ELSE fails + 1
            /\ events' = [events EXCEPT ![l] = {"IN"}]
            /\ epset' = IF ok THEN [epset EXCEPT ![l] = {"IN"}] ELSE epset
            /\ rret' = AddRet(ok)
            /\ regOK' = IF ok THEN regOK + 1 ELSE regOK
            /\ uaf' = Touch("add", {l})
            /\ tpc' = [tpc EXCEPT ![t] = "idle"]
            /\ tlink' = [tlink EXCEPT ![t] = NULL]
            /\ UNCHANGED <<cfg, listVars, pp, pa, pcap, next_check, clock, tickVars,
                           ioAns, ioCnt, ioHist, lastEv, tfalse, snapN, destroyed,
                           unregs, lastSweep, werr>>
     ELSE \E g \in GrowOutcomes :
            IF g = "crash" THEN Crash("grow")
            ELSE /\ pcap' = IF g = "none" THEN pcap ELSE pcap * 2
                 /\ pa' = IF g = "zeroed" THEN [i \in DOMAIN pa |-> ZeroSlot] ELSE pa
                 /\ uaf' = IF g = "moved" THEN First(<<"grow">>) ELSE uaf
                 /\ rret' = "OK"
                 /\ regOK' = regOK + 1
                 /\ tpc' = [tpc EXCEPT ![t] = "idle"]
                 /\ tlink' = [tlink EXCEPT ![t] = NULL]
                 /\ UNCHANGED <<cfg, listVars, events, epset, fails, pp, next_check,
                                clock, tickVars, ioAns, ioCnt, ioHist, lastEv, tfalse,
                                snapN, destroyed, unregs, lastSweep, werr>>

\* ------------------------------------------------------------ ready_remove
\* The unlinking under the mutex.
RemoveLinks(l) == IF prev[l] = NULL THEN next[l] ELSE links
RemoveNext(l) == IF prev[l] = NULL THEN next ELSE [next EXCEPT ![prev[l]] = next[l]]
RemovePrev(l) == IF next[l] # NULL THEN [prev EXCEPT ![next[l]] = prev[l]] ELSE prev

\* ready_remove writes the neighbours of the Link.
RemoveTouch(l) == IF ({prev[l], next[l]} \ {NULL}) \cap Freed # {} THEN <<"remove">> ELSE <<>>

\* handler->destroy is called when it is not NULL.
DestroyCount(l) ==
  IF Handlers[hnd[l]].destroy THEN Min(destroyed[l] + 1, 2) ELSE destroyed[l]

\* Whether some thread can still insert a Link, and so write ready->lcnt.
CanRegister == \E l \in Link : lst[l] = "none"

\* ready_remove(ready, l).  EPOLL_CTL_DEL drops the fd from the epoll set (a
\* failure is only logged).  ready->lcnt-- is not under the mutex: it is a
\* load here and a store in FinishDec, with the insertions of other threads
\* in between; when no thread can insert any more, the two are one step.
RemoveEffects(l) ==
  /\ links' = RemoveLinks(l)
  /\ next' = RemoveNext(l)
  /\ prev' = RemovePrev(l)
  /\ epset' = IF backend = "epoll" THEN [epset EXCEPT ![l] = Absent] ELSE epset
  /\ destroyed' = [destroyed EXCEPT ![l] = DestroyCount(l)]
  /\ lst' = [lst EXCEPT ![l] = "freed"]
  /\ unregs' = unregs + 1
  /\ IF CanRegister
     THEN lreg' = <<lcnt>> /\ lcnt' = lcnt
     ELSE lreg' = <<>> /\ lcnt' = lcnt - 1

NoRemove == UNCHANGED <<links, next, prev, epset, destroyed, lst, unregs, lreg, lcnt>>

\* The store of ready->lcnt--: not under the mutex.
FinishDec ==
  /\ Running
  /\ lreg # <<>>
  /\ lcnt' = lreg[1] - 1
  /\ lreg' = <<>>
  /\ UNCHANGED <<cfg, lst, next, prev, hnd, links, backVars, next_check, clock,
                 pc, tlinks, cur, tnow, pend, nfds, tret, regVars, obsVars>>

\* --------------------------------------------------------------- the tick
\* agoo_ready_go, the snapshot: links = ready->links under the mutex.
Snapshot ==
  /\ pc = "idle"
  /\ lreg = <<>>
  /\ pc' = "refresh"
  /\ tlinks' = links
  /\ tret' = "none"
  /\ snapN' = Cardinality(Allocated)
  /\ ioAns' = [l \in Link |-> "-"]
  /\ ioCnt' = [l \in Link |-> 0]
  /\ lastEv' = NoEvent
  /\ tfalse' = {}
  /\ UNCHANGED <<cfg, listVars, backVars, next_check, clock, cur, tnow, pend, nfds,
                 lreg, regVars, ioHist, destroyed, uaf, unregs, lastSweep, werr>>

\* A variant that reads ready->links again instead of the snapshot.
RefreshHeadReread == links

\* The interest refresh walks the snapshot.
RefreshHead == tlinks

\* The mask the refresh computes from io's answer (event.events starts 0).
Mask(a) ==
  CASE a = "IN" -> {"IN"}
    [] a = "OUT" -> {"OUT"}
    [] a = "BOTH" -> {"IN", "OUT"}
    [] OTHER -> {}

Occurrences(ch, l) == Cardinality({i \in 1..Len(ch) : ch[i] = l})

HistAfter(old, a) == old \/ a # "NONE"

\* What the refresh leaves in the observations, given io's answers.
RefreshObs(ch, ans) ==
  /\ ioAns' = [l \in Link |-> IF l \in Range(ch) THEN ans[l] ELSE "-"]
  /\ ioCnt' = [l \in Link |-> Occurrences(ch, l)]
  /\ ioHist' = [l \in Link |-> IF l \in Range(ch) THEN HistAfter(ioHist[l], ans[l])
                               ELSE ioHist[l]]

\* A variant in which a NONE answer skips the comparison.
NeedModUnlessNone(l, mask, eq) ==
  mask # {} /\ (IF events[l] = Uninit THEN l \notin eq ELSE mask # events[l])

\* epoll: EPOLL_CTL_MOD is issued when the new mask differs from link->events.
\* An uninitialized link->events compares either way (eq).
NeedMod(l, mask, eq) == IF events[l] = Uninit THEN l \notin eq ELSE mask # events[l]

\* The mask cached in link->events after a MOD, whether or not it succeeded.
CachedAfterMod(mask, ok) == mask

RefreshEpoll ==
  /\ pc = "refresh"
  /\ backend = "epoll"
  /\ LET ch == Chain(RefreshHead)
         S == Range(ch)
     IN \E oc \in Outcomes(S) :
          IF oc = "crash" THEN Crash("refresh")
          ELSE \E ans \in [S -> IoAnswers],
                  eq \in SUBSET {l \in S : events[l] = Uninit} :
                 \E fail \in SUBSET {l \in S : NeedMod(l, Mask(ans[l]), eq)
                                               /\ epset[l] # Absent} :
                   LET ok(l) == epset[l] # Absent /\ l \notin fail IN
                   /\ Cardinality(fail) <= MaxFails - fails
                   /\ fails' = fails + Cardinality(fail)
                   /\ events' = [l \in Link |->
                        IF l \in S /\ NeedMod(l, Mask(ans[l]), eq)
                        THEN CachedAfterMod(Mask(ans[l]), ok(l)) ELSE events[l]]
                   /\ epset' = [l \in Link |->
                        IF l \in S /\ NeedMod(l, Mask(ans[l]), eq) /\ ok(l)
                        THEN Mask(ans[l]) ELSE epset[l]]
                   /\ RefreshObs(ch, ans)
                   /\ uaf' = Touch("refresh", S)
                   /\ pc' = "wait"
                   /\ UNCHANGED <<cfg, listVars, pp, pa, pcap, next_check, clock,
                                  tlinks, cur, tnow, pend, nfds, lreg, tret, regVars,
                                  lastEv, tfalse, snapN, destroyed, unregs, lastSweep, werr>>

\* poll: the slot a Link's answer leaves the write pointer at.  NONE: the
\* pp-- of the case and the pp++ of the loop leave it where it was, so the
\* next Link is given the same slot.
SlotAfter(k, a) == IF a = "NONE" THEN k ELSE k + 1

\* link->pp after the refresh: set before the switch, and not cleared.
PpAfter(k, a) == k

\* The events field of the slot: left as it was on NONE.
SlotEvents(old, a) == IF a = "NONE" THEN old ELSE Mask(a)

RECURSIVE PollSetup(_, _, _, _, _, _)
PollSetup(ch, i, k, a0, p0, ans) ==
  IF i > Len(ch) THEN [pa |-> a0, pp |-> p0, n |-> k]
  ELSE LET l == ch[i]
           slot == [fd |-> l, revents |-> {}, events |-> SlotEvents(a0[k].events, ans[l])]
       IN PollSetup(ch, i + 1, SlotAfter(k, ans[l]),
                    [a0 EXCEPT ![k] = slot], [p0 EXCEPT ![l] = PpAfter(k, ans[l])], ans)

\* poll: the refresh writes one slot for every Link of the snapshot (the
\* tail's follow those of the Links in front of it); with more Links than
\* slots it writes past the end of the array.
Overflows(ch) == cfg.base + Len(ch) > pcap

RefreshPoll ==
  /\ pc = "refresh"
  /\ backend = "poll"
  /\ LET ch == Chain(RefreshHead)
         S == Range(ch)
     IN \E oc \in Outcomes(S) \cup (IF Overflows(ch) THEN {"stale", "crash"} ELSE {}) :
          IF oc = "crash" THEN Crash(IF S \cap Freed # {} THEN "refresh" ELSE "overflow")
          ELSE \E ans \in [S -> IoAnswers] :
                 LET r == PollSetup(ch, 1, 0, pa, pp, ans) IN
                 /\ pa' = r.pa
                 /\ pp' = r.pp
                 /\ nfds' = r.n
                 /\ RefreshObs(ch, ans)
                 /\ uaf' = First(StaleTag2(S, "refresh") \o
                                 (IF Overflows(ch) THEN <<"overflow">> ELSE <<>>))
                 /\ pc' = "wait"
                 /\ UNCHANGED <<cfg, listVars, events, epset, pcap, fails, next_check, clock,
                                tlinks, cur, tnow, pend, lreg, tret, regVars,
                                lastEv, tfalse, snapN, destroyed, unregs, lastSweep, werr>>

\* The bits the backend can report for an fd with the given interest: those
\* asked for, and errors and hangups, which are always reported.
Reportable(mask) == SUBSET (mask \cup {"ERR"})

\* epoll_wait returns events for some of the fds in the epoll set.
WaitEpoll ==
  /\ pc = "wait"
  /\ backend = "epoll"
  /\ \E S \in SUBSET {l \in Link : epset[l] # Absent} :
       /\ pend' = S
       /\ pc' = "dispatch"
  /\ UNCHANGED <<cfg, listVars, backVars, next_check, clock, tlinks, cur, tnow, nfds,
                 lreg, tret, regVars, obsVars>>

\* poll: the dispatch loop starts at the snapshot.
DispatchHead == tlinks

\* poll fills in revents of the first nfds slots; the dispatch loop runs when
\* it returns a positive count (otherwise nothing reads the slot array again
\* before the next refresh rewrites it).
WaitPoll ==
  /\ pc = "wait"
  /\ backend = "poll"
  /\ \E rev \in [0..(nfds - 1) -> SUBSET Bits] :
       /\ \A i \in DOMAIN rev : rev[i] \in Reportable(pa[i].events)
       /\ IF \E i \in DOMAIN rev : rev[i] # {}
          THEN /\ pc' = "dispatch"
               /\ cur' = DispatchHead
               /\ pa' = [i \in DOMAIN pa |->
                           IF i < nfds THEN [pa[i] EXCEPT !.revents = rev[i]] ELSE pa[i]]
               /\ UNCHANGED <<pp, nfds>>
          ELSE /\ pc' = "sweep"
               /\ cur' = cur
               /\ pa' = [i \in DOMAIN pa |-> ZeroSlot]
               /\ pp' = [l \in Link |-> PpUninit]
               /\ nfds' = 0
  /\ UNCHANGED <<cfg, listVars, events, epset, pcap, fails, next_check, clock, tlinks,
                 tnow, pend, lreg, tret, regVars, obsVars>>

\* The errno of a wait that returns a negative result: a signal interrupted
\* it (EINTR), or another failure.
WaitErrnos == {"EINTR", "EAGAIN", "ENOMEM"}

\* What the tick returns when the wait fails with errno e: the poll build
\* returns OK on EAGAIN, and the error code otherwise.
WaitFailRet(e) == IF backend = "poll" /\ e = "EAGAIN" THEN "OK" ELSE "ERR"

\* The wait returns a negative result: the tick returns at once.
WaitFail ==
  /\ pc = "wait"
  /\ \E e \in WaitErrnos :
       /\ tret' = WaitFailRet(e)
       /\ werr' = e
  /\ pc' = "done"
  /\ UNCHANGED <<cfg, listVars, backVars, next_check, clock, tlinks, cur, tnow, pend,
                 nfds, lreg, regVars, ioAns, ioCnt, ioHist, lastEv, tfalse, snapN,
                 destroyed, uaf, unregs, lastSweep>>

\* ---------------------------------------------------------------- dispatch
\* The three tests of the dispatch loop, in the order of the code.
DoRead(bits, h) == "IN" \in bits /\ h.read
\* A variant with the test grouped as events & (EPOLLOUT && write): the
\* logical AND is 1, the readable bit.
DoWriteGrouped(bits, h) == h.write /\ "IN" \in bits

DoWrite(bits, h) == "OUT" \in bits /\ h.write
DoError(bits) == "ERR" \in bits

\* A variant that tests the error bits only when read was not called.
ErrorBranchElse(rd, rfail, wfail, bits) == ~rd /\ ~rfail /\ ~wfail /\ DoError(bits)

\* The error branch is reached when neither read nor write returned false.
ErrorBranch(rd, rfail, wfail, bits) == ~rfail /\ ~wfail /\ DoError(bits)

\* The callbacks one event invokes on a Link whose handler is h, when read
\* would return r and write w: the calls in order, whether ready_remove is
\* called, and whether a callback returned false.
EventRun(h, bits, r, w) ==
  LET rd == DoRead(bits, h)
      rfail == rd /\ ~r
      wr == ~rfail /\ DoWrite(bits, h)
      wfail == wr /\ ~w
      er == ErrorBranch(rd, rfail, wfail, bits)
  IN [log |-> (IF rd THEN << <<"read", r>> >> ELSE <<>>)
              \o (IF wr THEN << <<"write", w>> >> ELSE <<>>)
              \o (IF er /\ h.error THEN << <<"error", TRUE>> >> ELSE <<>>),
      removed |-> rfail \/ wfail \/ er,
      false |-> rfail \/ wfail]

StaleTag(l, site) == IF l \in Freed THEN <<site>> ELSE <<>>

\* One iteration of the dispatch loop, for Link l and the bits of its event.
HandleEvent(l, bits) ==
  \E r \in BOOLEAN, w \in BOOLEAN :
    LET e == EventRun(Handlers[hnd[l]], bits, r, w) IN
    /\ lastEv' = [kind |-> "event", link |-> l, bits |-> bits, log |-> e.log,
                  removed |-> e.removed, live |-> lst[l] = "live"]
    /\ tfalse' = IF e.false /\ lst[l] = "live" THEN tfalse \cup {l} ELSE tfalse
    /\ IF e.removed
       THEN RemoveEffects(l) /\ uaf' = First(StaleTag(l, "dispatch") \o RemoveTouch(l))
       ELSE NoRemove /\ uaf' = First(StaleTag(l, "dispatch"))

\* epoll: the events are dispatched in the order epoll_wait returned them;
\* each carries the Link it was registered with and at least one bit.
DispatchEpoll ==
  /\ pc = "dispatch"
  /\ backend = "epoll"
  /\ lreg = <<>>
  /\ \E l \in pend :
       \E oc \in Outcomes({l}) :
         IF oc = "crash" THEN Crash("dispatch")
         ELSE /\ \E bits \in Reportable(IF epset[l] = Absent THEN {} ELSE epset[l]) \ {{}} :
                   HandleEvent(l, bits)
              /\ pend' = pend \ {l}
              /\ UNCHANGED <<cfg, hnd, events, pp, pa, pcap, fails, next_check, clock,
                             pc, tlinks, cur, tnow, nfds, tret, regVars,
                             ioAns, ioCnt, ioHist, snapN, lastSweep, werr>>

\* poll: a Link whose back-pointer is NULL is skipped.
PpNull(l) == pp[l] = PpNULL

\* poll: the dispatch loop walks the snapshot and reads revents through
\* link->pp.  next = link->next is read before the callbacks run.
DispatchPoll ==
  /\ pc = "dispatch"
  /\ backend = "poll"
  /\ lreg = <<>>
  /\ cur # NULL
  /\ LET l == cur IN
     \E oc \in Outcomes({l}) :
       IF oc = "crash" THEN Crash("dispatch")
       ELSE /\ cur' = next[l]
            /\ IF PpNull(l) \/ pp[l] = PpUninit \/ pa[pp[l]].revents = {}
               THEN /\ NoRemove
                    /\ uaf' = First(StaleTag(l, "dispatch"))
                    /\ lastEv' = NoEvent
                    /\ UNCHANGED tfalse
               ELSE HandleEvent(l, pa[pp[l]].revents)
            /\ UNCHANGED <<cfg, hnd, events, pp, pa, pcap, fails, next_check, clock,
                           pc, tlinks, tnow, pend, nfds, tret, regVars,
                           ioAns, ioCnt, ioHist, snapN, lastSweep, werr>>

\* The dispatch loop is over.  Nothing reads the slot array or a back-pointer
\* again before the next refresh rewrites them.
DispatchEnd ==
  /\ pc = "dispatch"
  /\ lreg = <<>>
  /\ IF backend = "epoll" THEN pend = {} ELSE cur = NULL
  /\ pc' = "sweep"
  /\ lastEv' = NoEvent
  /\ pa' = [i \in DOMAIN pa |-> ZeroSlot]
  /\ pp' = [l \in Link |-> PpUninit]
  /\ nfds' = 0
  /\ UNCHANGED <<cfg, listVars, events, epset, pcap, fails, next_check, clock, tlinks, cur,
                 tnow, pend, lreg, tret, regVars, ioAns, ioCnt, ioHist, tfalse, snapN,
                 destroyed, uaf, unregs, lastSweep, werr>>

\* ------------------------------------------------------------------- sweep
\* A variant that sweeps in every tick.
SweepAlways(nc, now) == TRUE

\* The sweep runs when next_check <= now.
SweepDue(nc, now) == nc <= now

\* The sweep walks the snapshot taken at the start of the tick.
SweepHead == tlinks

\* now = dtime(), and the test of next_check.
SweepStart ==
  /\ pc = "sweep"
  /\ lreg = <<>>
  /\ \E t \in Dtimes :
       /\ clock' = t
       /\ tnow' = t
       /\ lastEv' = NoEvent
       /\ IF SweepDue(next_check, t)
          THEN pc' = "check" /\ cur' = SweepHead /\ tret' = tret
          ELSE pc' = "done" /\ cur' = cur /\ tret' = "OK"
  /\ UNCHANGED <<cfg, listVars, backVars, next_check, tlinks, pend, nfds, lreg,
                 regVars, ioAns, ioCnt, ioHist, tfalse, snapN, destroyed, uaf, unregs,
                 lastSweep, werr>>

\* One iteration of the sweep: next = link->next, then check, and
\* ready_remove when it returns false.
SweepStep ==
  /\ pc = "check"
  /\ lreg = <<>>
  /\ cur # NULL
  /\ LET l == cur IN
     \E oc \in Outcomes({l}) :
       IF oc = "crash" THEN Crash("sweep")
       ELSE /\ cur' = next[l]
            /\ IF Handlers[hnd[l]].check
               THEN \E r \in BOOLEAN :
                      /\ lastEv' = [kind |-> "check", link |-> l, bits |-> {},
                                    log |-> << <<"check", r>> >>, removed |-> ~r,
                                    live |-> lst[l] = "live"]
                      /\ tfalse' = IF ~r /\ lst[l] = "live" THEN tfalse \cup {l} ELSE tfalse
                      /\ IF r THEN NoRemove /\ uaf' = First(StaleTag(l, "sweep"))
                         ELSE RemoveEffects(l)
                              /\ uaf' = First(StaleTag(l, "sweep") \o RemoveTouch(l))
               ELSE /\ NoRemove
                    /\ uaf' = First(StaleTag(l, "sweep"))
                    /\ lastEv' = NoEvent
                    /\ UNCHANGED tfalse
            /\ UNCHANGED <<cfg, hnd, events, pp, pa, pcap, fails, next_check, clock,
                           pc, tlinks, tnow, pend, nfds, tret, regVars,
                           ioAns, ioCnt, ioHist, snapN, lastSweep, werr>>

\* The value the sweep leaves in next_check: dtime() + CHECK_FREQ.
NextCheck(t) == t + CHECK_FREQ

SweepEnd ==
  /\ pc = "check"
  /\ lreg = <<>>
  /\ cur = NULL
  /\ \E t \in Dtimes :
       /\ clock' = t
       /\ next_check' = NextCheck(t)
  /\ lastSweep' = tnow
  /\ pc' = "done"
  /\ tret' = "OK"
  /\ lastEv' = NoEvent
  /\ UNCHANGED <<cfg, listVars, backVars, tlinks, cur, tnow, pend, nfds, lreg,
                 regVars, ioAns, ioCnt, ioHist, tfalse, snapN, destroyed, uaf, unregs,
                 werr>>

\* agoo_ready_go returns, and its locals die.
Return ==
  /\ pc = "done"
  /\ pc' = "idle"
  /\ tlinks' = NULL
  /\ cur' = NULL
  /\ tnow' = 0
  /\ pend' = {}
  /\ nfds' = 0
  /\ pa' = [i \in DOMAIN pa |-> ZeroSlot]
  /\ pp' = [l \in Link |-> PpUninit]
  /\ ioAns' = [l \in Link |-> "-"]
  /\ ioCnt' = [l \in Link |-> 0]
  /\ lastEv' = NoEvent
  /\ tfalse' = {}
  /\ tret' = "none"
  /\ snapN' = 0
  /\ werr' = "none"
  /\ UNCHANGED <<cfg, listVars, events, epset, pcap, fails, next_check, clock, lreg,
                 regVars, ioHist, destroyed, uaf, unregs, lastSweep>>

\* ------------------------------------------------------- agoo_ready_destroy
\* After the loop has stopped: destroy and free every Link of the list.
Destroy ==
  /\ pc = "idle"
  /\ lreg = <<>>
  /\ \A t \in Thread : tpc[t] = "idle"
  /\ LET S == ListSet IN
     \E oc \in Outcomes(S) :
       IF oc = "crash" THEN Crash("destroy")
       ELSE /\ destroyed' = [l \in Link |-> IF l \in S THEN DestroyCount(l) ELSE destroyed[l]]
            /\ lst' = [l \in Link |-> IF l \in S THEN "freed" ELSE lst[l]]
            /\ links' = NULL
            /\ uaf' = Touch("destroy", S)
            /\ pc' = "destroyed"
            /\ UNCHANGED <<cfg, next, prev, hnd, lcnt, backVars, next_check, clock,
                           tlinks, cur, tnow, pend, nfds, lreg, tret, regVars,
                           ioAns, ioCnt, ioHist, lastEv, tfalse, snapN, unregs, lastSweep, werr>>

\* ---------------------------------------------------------- specification
Next ==
  \/ \E t \in Thread : RegNoMem(t)
  \/ \E t \in Thread : RegLink(t)
  \/ \E t \in Thread : RegBackend(t)
  \/ Snapshot
  \/ RefreshEpoll
  \/ RefreshPoll
  \/ WaitEpoll
  \/ WaitPoll
  \/ WaitFail
  \/ DispatchEpoll
  \/ DispatchPoll
  \/ DispatchEnd
  \/ SweepStart
  \/ SweepStep
  \/ SweepEnd
  \/ FinishDec
  \/ Return
  \/ Destroy

\* Both builds, with the bounds of the list.
Init ==
  /\ cfg \in [backend : {"epoll", "poll"}, links : {MaxLinks}, time : {MaxTime},
              threads : {NThreads}, base : {0}, cap : {INITIAL_POLL_SIZE}]
  /\ InitState

Spec == Init /\ [][Next]_vars

\* Both builds, with a short list and a long time: several sweeps.
InitTime ==
  /\ cfg \in [backend : {"epoll", "poll"}, links : {TimeLinks}, time : {TimeMax},
              threads : {NThreads}, base : {0}, cap : {INITIAL_POLL_SIZE}]
  /\ InitState

SpecTime == InitTime /\ [][Next]_vars

\* The poll build with its slot array nearly full: the Links registered so
\* far are one fewer than the capacity their registrations left, and
\* several threads register.
NextPoll ==
  \/ \E t \in Thread : RegNoMem(t)
  \/ \E t \in Thread : RegLink(t)
  \/ \E t \in Thread : RegBackend(t)
  \/ Snapshot
  \/ RefreshPoll
  \/ WaitPoll
  \/ WaitFail
  \/ DispatchPoll
  \/ DispatchEnd
  \/ SweepStart
  \/ SweepStep
  \/ SweepEnd
  \/ FinishDec
  \/ Return
  \/ Destroy

InitPoll ==
  /\ cfg \in {[backend |-> "poll", links |-> MaxLinks, time |-> MaxTime,
               threads |-> PollThreads,
               base |-> INITIAL_POLL_SIZE - 1, cap |-> INITIAL_POLL_SIZE],
              [backend |-> "poll", links |-> 1, time |-> MaxTime, threads |-> 1,
               base |-> 2 * INITIAL_POLL_SIZE - 1, cap |-> 2 * INITIAL_POLL_SIZE]}
  /\ InitState

SpecPoll == InitPoll /\ [][NextPoll]_vars


\* ================================================================== claims
Called(cb) == \E i \in 1..Len(lastEv.log) : lastEv.log[i][1] = cb
Returned(cb, r) == \E i \in 1..Len(lastEv.log) : lastEv.log[i] = <<cb, r>>
EvHandler == Handlers[hnd[lastEv.link]]
LiveEvent == lastEv.kind = "event" /\ lastEv.live
Quiescent == pc = "idle" /\ lreg = <<>> /\ \A t \in Thread : tpc[t] = "idle"
\* The Links inserted since the tick in progress took its snapshot.
NewInTick == {l \in Allocated : l > snapN}

\* C1 (as claimed): handler.destroy is never invoked twice for a Link, and
\* once the manager is destroyed it has been invoked exactly once for every
\* Link that was registered with a destroy callback.
C1_DestroyExactlyOnce ==
  /\ \A l \in Link : destroyed[l] <= 1
  /\ pc = "destroyed" =>
       \A l \in Allocated : Handlers[hnd[l]].destroy => destroyed[l] = 1

\* C2 (as claimed): a Link that was unregistered is not used again: no
\* callback runs on a freed Link, nothing follows the removal in the same
\* event's dispatch, and neither the dispatch nor the sweep reads a freed Link.
C2_NoUseAfterUnregister ==
  /\ uaf \notin {"sweep", "dispatch"}
  /\ lastEv.log # <<>> => lastEv.live
  /\ (lastEv.kind = "event" /\ (Returned("read", FALSE) \/ Returned("write", FALSE))) =>
       lastEv.log[Len(lastEv.log)][2] = FALSE

\* C3: in the dispatch of an event of a live Link in which read did not
\* return false, write is invoked exactly when the event carries the writable
\* bit and the handler defines write.
C3_WriteIffWritable ==
  (LiveEvent /\ ~Returned("read", FALSE)) =>
    (Called("write") <=> ("OUT" \in lastEv.bits /\ EvHandler.write))

\* C3's case: an event with only the writable bit invoked write.
C3_Witness ==
  LiveEvent /\ lastEv.bits = {"OUT"} /\ Called("write")

\* C4 (as claimed): read and write are not invoked on a Link that answered
\* NONE in this tick's refresh and has never answered anything else; in the
\* poll build they are not invoked on any Link that answered NONE in this
\* tick's refresh.
C4_NoneIsNeverDispatched ==
  (LiveEvent /\ (Called("read") \/ Called("write")) /\ ioAns[lastEv.link] = "NONE") =>
    (ioHist[lastEv.link] /\ backend # "poll")

C6_CountIsRegisteredMinusRemoved ==
  Quiescent => lcnt = regOK - unregs

\* C7 (as claimed): when a tick returns, every live Link that read, write or
\* check returned false for in it is out of the list, freed and destroyed;
\* and when it was the only Link ever registered, count() is 0.
C7_FalseUnregistersInTick ==
  (pc = "done" /\ tret = "OK") =>
    /\ \A l \in tfalse :
         /\ l \notin ListSet
         /\ lst[l] = "freed"
         /\ Handlers[hnd[l]].destroy => destroyed[l] >= 1
    /\ (tfalse # {} /\ Cardinality(Allocated) = 1 /\ \A t \in Thread : tpc[t] = "idle") =>
         lcnt = 0

\* C8 (as claimed): an event of a live Link with the readable and an error
\* bit invokes read first; if read returns true, error is invoked (when
\* defined) and the Link is unregistered.
C8_ErrorAfterRead ==
  (LiveEvent /\ {"IN", "ERR"} \subseteq lastEv.bits /\ EvHandler.read) =>
    /\ lastEv.log[1][1] = "read"
    /\ Returned("read", TRUE) =>
         /\ EvHandler.error => Called("error")
         /\ lastEv.removed

\* C8 (amended): ... if read returns true, the Link is unregistered in that
\* dispatch, and error is invoked (when defined) unless the event also
\* carries the writable bit and write returned false.
C8_ErrorAfterReadUnlessWriteFails ==
  (LiveEvent /\ {"IN", "ERR"} \subseteq lastEv.bits /\ EvHandler.read) =>
    /\ lastEv.log[1][1] = "read"
    /\ Returned("read", TRUE) =>
         /\ lastEv.removed
         /\ (EvHandler.error /\ ~Returned("write", FALSE)) =>
              lastEv.log[Len(lastEv.log)][1] = "error"
         /\ Returned("write", FALSE) => ~Called("error")

\* C8's case: read, write and error all ran for one event of a handler that
\* defines write, and the Link was unregistered.
C8_Witness ==
  /\ LiveEvent
  /\ lastEv.bits = {"IN", "OUT", "ERR"}
  /\ lastEv.log = << <<"read", TRUE>>, <<"write", TRUE>>, <<"error", TRUE>> >>
  /\ lastEv.removed

\* C9: a sweep runs only in a tick with next_check <= now, at least
\* CHECK_FREQ after the sweep before it, and next_check never decreases.
C9_SweepCadence ==
  /\ [](pc = "check" =>
          /\ next_check <= tnow
          /\ lastSweep >= 0 => tnow - lastSweep >= CHECK_FREQ)
  /\ [][next_check' >= next_check]_vars

\* C9's case: a second sweep is running and has checked a live Link.
C9_Witness ==
  pc = "check" /\ lastSweep >= 0 /\ lastEv.kind = "check" /\ lastEv.live

\* C10 (as claimed): after the refresh, io was asked exactly once for every
\* Link of the snapshot, and every Link inserted before the snapshot and not
\* unregistered is in the snapshot.
C10_EveryLinkPolledOnce ==
  pc = "wait" =>
    /\ \A l \in Range(Chain(tlinks)) : ioCnt[l] = 1
    /\ \A l \in Link :
         (l <= snapN /\ lst[l] = "live" /\ \A t \in Thread : tlink[t] # l) =>
           l \in Range(Chain(tlinks))

\* A step of agoo_ready_add that returns because link_create failed, and one
\* of thread t that returns because EPOLL_CTL_ADD failed.
NoMemStep == fails' # fails /\ tpc' = tpc /\ pc' = pc
AddFailStep(t) == tpc[t] = "linked" /\ tpc'[t] = "idle" /\ fails' # fails
InsertStep(t) == tpc[t] = "idle" /\ tpc'[t] = "linked"

C12_FailedWaitTick ==
  werr # "none" =>
    /\ lastEv = NoEvent
    /\ tfalse = {}
    /\ Range(Chain(tlinks)) \subseteq ListSet
    /\ backend = "poll" => tret = (IF werr = "EINTR" THEN "OK" ELSE "ERR")

\* The bits either build can report in a tick for the fd of a Link whose io
\* answered a.  epoll: the mask is installed as it is, and errors and hangups
\* are reported whatever the mask.  poll: a Link that answered NONE is given
\* no slot of its own, so nothing is reported for its fd.
EpollReports(a) == Reportable(Mask(a)) \ {{}}
PollReports(a) == IF SlotAfter(0, a) = 0 THEN {} ELSE Reportable(Mask(a)) \ {{}}

\* A tick of a single I/O thread with no backend failure, on a list of one
\* Link whose registration was complete: an event was dispatched on it.
LoneEvent ==
  /\ LiveEvent
  /\ snapN = 1
  /\ lastEv.link = 1
  /\ ioAns[1] # "-"
  /\ fails = 0
  /\ uaf = "no"
  /\ backend = "epoll" => events[1] = Mask(ioAns[1])

\* C13 (as claimed): the two builds invoke the same callbacks for the same
\* inputs: the bits of an event that either build dispatches on a Link that
\* answered a are bits that both builds report for that answer (and the
\* callbacks of an event are the same function of its bits in both).
C13_SameCallbacksInBothBuilds ==
  LoneEvent => lastEv.bits \in (EpollReports(ioAns[1]) \cap PollReports(ioAns[1]))

\* C14 (as claimed): the step of a register call that follows its insertion,
\* taken while a tick is using the backend handle, leaves the epoll set and
\* the poll slot array (its contents and its capacity) as they are.
C14_BackendOnlyIoThread ==
  [][(InUse /\ \E t \in Thread : tpc[t] = "linked" /\ tpc'[t] = "idle") =>
       UNCHANGED <<epset, pa, pcap>>]_vars

\* Every register call so far has returned and no Link was unregistered.
OnlyRegistered == unregs = 0 /\ \A t \in Thread : tpc[t] = "idle"

\* The capacity after n registrations when the array doubles once the count
\* exceeds it, and when it doubles once the count reaches it.
CapWhenExceeded(n) ==
  IF n <= INITIAL_POLL_SIZE THEN INITIAL_POLL_SIZE
  ELSE IF n <= 2 * INITIAL_POLL_SIZE THEN 2 * INITIAL_POLL_SIZE
  ELSE 4 * INITIAL_POLL_SIZE
CapWhenReached(n) ==
  IF n < INITIAL_POLL_SIZE THEN INITIAL_POLL_SIZE
  ELSE IF n < 2 * INITIAL_POLL_SIZE THEN 2 * INITIAL_POLL_SIZE
  ELSE 4 * INITIAL_POLL_SIZE

\* C15 (as claimed): poll build, registrations only: the array has doubled
\* only when the count exceeded the capacity, so 1024 Links leave the
\* capacity 1024 and 2048 Links leave it 2048.
C15_GrowsWhenExceeded ==
  (backend = "poll" /\ OnlyRegistered) => pcap = CapWhenExceeded(lcnt)

\* C15 (amended): poll build, registrations only: a register call doubles
\* the array when the count after its insertion has reached the capacity, so
\* 1023 Links leave the capacity 1024, 1024 to 2047 Links leave it 2048 and
\* 2048 Links leave it 4096; the capacity changes only by doubling, in a
\* register call that finds capacity <= count.
C15_GrowsWhenReached ==
  /\ []((backend = "poll" /\ OnlyRegistered) => pcap = CapWhenReached(lcnt))
  /\ [][pcap' # pcap => (pcap' = 2 * pcap /\ pcap <= lcnt)]_vars

\* C15's case: the 1024th Link has been registered and the array has grown.
C15_Witness ==
  /\ backend = "poll"
  /\ OnlyRegistered
  /\ lcnt = INITIAL_POLL_SIZE
  /\ pcap = 2 * INITIAL_POLL_SIZE

\* The Links in the list: the idle tail and those reached from the head.
ListLen == cfg.base + Len(Chain(links))

\* C16 (as claimed): poll build: in every state the capacity of the slot
\* array is at least the number of Links in the list, the refresh has
\* written no slot past the end of the array, and the capacity never
\* decreases.
C16_CapacityCoversList ==
  backend = "poll" =>
    /\ pcap >= ListLen
    /\ uaf # "overflow"
    /\ pcap >= cfg.cap

\* C17 (as claimed): while the manager exists, once every register call and
\* every unregistration has completed, count() is the number of Links
\* reached from the list head.
C17_CountIsListLength ==
  (Running /\ lreg = <<>> /\ \A t \in Thread : tpc[t] = "idle") => lcnt = ListLen

\* The Links whose io has just answered NONE in a refresh of the epoll
\* build, with link->events written by their register call.
AnsweredNone ==
  {l \in Link : pc = "refresh" /\ pc' = "wait" /\ backend = "epoll"
                /\ ioAns'[l] = "NONE" /\ events[l] # Uninit}

\* C18 (as claimed): epoll build: the refresh leaves the installed mask and
\* the cached mask of a Link whose io answered NONE as they were.
C18_NoneLeavesInterest ==
  [][\A l \in AnsweredNone : events'[l] = events[l] /\ epset'[l] = epset[l]]_vars

\* C18 (amended): epoll build: for a Link whose io answered NONE the refresh
\* computes the empty mask.  When the cached mask is not empty it issues
\* EPOLL_CTL_MOD with the empty mask: the cached mask becomes empty, and so
\* does the installed one unless the call fails.  When the cached mask is
\* empty already, both stay as they were.
C18_NoneClearsInterest ==
  [][\A l \in AnsweredNone :
       /\ events'[l] = {}
       /\ events[l] = {} => epset'[l] = epset[l]
       /\ events[l] # {} => (epset'[l] = {} \/ (epset'[l] = epset[l] /\ fails' > fails)
                              \/ (epset'[l] = epset[l] /\ epset[l] = Absent))]_vars

\* C18's case: a Link that was installed with the readable mask answered
\* NONE, and the refresh has installed and cached the empty mask.
C18_Witness ==
  /\ backend = "epoll"
  /\ pc = "wait"
  /\ \E l \in Link : /\ ioAns[l] = "NONE"
                     /\ lst[l] = "live"
                     /\ events[l] = {}
                     /\ epset[l] = {}
                     /\ ~ioHist[l]

\* C19 (as claimed): epoll build: when the tick calls the wait, the cached
\* mask of every live Link of the snapshot whose fd is in the epoll set is
\* the mask installed for that fd.
C19_CachedIsInstalled ==
  (backend = "epoll" /\ pc = "wait") =>
    \A l \in Range(Chain(tlinks)) :
      (lst[l] = "live" /\ epset[l] # Absent) => events[l] = epset[l]

\* C20 (as claimed): the list is a well-formed doubly-linked list: the
\* head's prev is NULL, the prev of a Link's successor is that Link, the
\* Links reached from the head are exactly the registered and not yet
\* unregistered ones, each once, and they are in the order newest first.
C20_ListWellFormed ==
  LET ch == Chain(links) IN
  /\ links # NULL => prev[links] = NULL
  /\ \A l \in Range(ch) : next[l] # NULL => prev[next[l]] = l
  /\ Range(ch) = {l \in Link : lst[l] = "live"}
  /\ Len(ch) = Cardinality(Range(ch))
  /\ \A i, j \in 1..Len(ch) : i < j => ch[i] > ch[j]

====
